---- MODULE Spec2Model ----
(***************************************************************************)
(* A model of the dprio crate: the hash commitments and the snapping       *)
(* selector of src/src/lib.rs, and the discrete Laplace noise of           *)
(* src/src/laplace.rs.                                                     *)
(*                                                                         *)
(* Numbers.  An f64 is a record [cls, m, e]: cls is "fin" for the finite   *)
(* value m * 2^e (m an integer, odd or 0), or "nan", "inf", "ninf".        *)
(* Arithmetic is IEEE round-to-nearest-even on a significand of PrecBits   *)
(* bits instead of 53: every operation whose exact result has at most      *)
(* PrecBits significant bits gives the value f64 gives.  An i64 is an       *)
(* integer of I64Bits bits, a u64 of the commitments one of WordBits bits;  *)
(* the u64 of r() is a sequence of U64Bits bits, least significant first.   *)
(***************************************************************************)
EXTENDS Integers, Naturals, Sequences, FiniteSets, TLC

VARIABLES
  \* lib.rs, the commitments (test_basic_commitment's locals)
  cpc,            \* position in the commit / validate / gather flow
  corpus,         \* n, the corpus size every commitment is created with
  commitments,    \* Vec<Commitment>
  closed,         \* Vec<ClosedCommitment>
  published,      \* Vec<u64>
  opened,         \* the validate() results so far
  gathered,       \* the gather() result
  \* laplace.rs, ceil_power_of_two and get_granularity
  gpc,            \* "call" before the call, "ret" after it
  gx,             \* the argument x
  exponent,       \* the loop's exponent
  val,            \* the loop's val
  gres,           \* the value returned
  \* lib.rs, the snapping selector: k, r and laplace
  spc,            \* "call" before the call, "ret" after it
  fn,             \* the function called: "k", "r" or "laplace"
  delta,          \* the argument delta
  epsilon,        \* the argument epsilon
  checked,        \* the build: TRUE when integer overflow panics (debug)
  minimum,        \* r's minimum, a u64
  power_of_2,     \* r's power_of_2, a u64
  rres,           \* the value r returned
  sres,           \* the value returned, or the panic
  \* laplace.rs, the samplers and noise
  npc,            \* the position in noise and the two samplers
  entry,          \* the function called: "two_sided" or "noise"
  l1_sensitivity, \* noise's argument l1_sensitivity
  noise_epsilon,  \* noise's argument epsilon
  overflow_checks, \* the build noise ran in: TRUE when integer overflow panics
  granularity,    \* noise's granularity
  lambda,         \* the samplers' argument lambda
  left,           \* sample_geometric's left
  right,          \* sample_geometric's right
  iters,          \* turns of the bisection loop taken in this call
  draws,          \* next_double calls made in this call
  exceeded,       \* whether the first draw exceeded the tail mass
  geometric_sample, \* sample_two_sided_geometric's geometric_sample
  positive,       \* sample_two_sided_geometric's positive
  geores,         \* the value sample_geometric returned
  twores,         \* the value sample_two_sided_geometric returned
  nres            \* the value noise returned, or the panic

commitVars == <<cpc, corpus, commitments, closed, published, opened, gathered>>
ceilVars == <<gpc, gx, exponent, val, gres>>
selVars == <<spc, fn, delta, epsilon, checked, minimum, power_of_2, rres, sres>>
geoVars == <<lambda, left, right, iters, draws, exceeded, geores>>
twoVars == <<geometric_sample, positive, twores>>
noiseArgs == <<entry, l1_sensitivity, noise_epsilon>>
noiseVars == <<npc, noiseArgs, overflow_checks, granularity, geoVars, twoVars, nres>>

vars == <<commitVars, ceilVars, selVars, noiseVars>>

\* What the actions of each part leave alone.
commitOthers == <<ceilVars, selVars, noiseVars>>
ceilOthers == <<commitVars, selVars, noiseVars>>
selOthers == <<commitVars, ceilVars, noiseVars>>
noiseOthers == <<commitVars, selVars>>

\* Significand bits of the modelled f64.
PrecBits == 10
\* Binary exponent of the largest finite f64 power of two, and of the smallest.
F64MaxExp == 1023
F64MinExp == -1074

----------------------------------------------------------------------------
(* f64 *)

Abs(n) == IF n < 0 THEN -n ELSE n

Min(a, b) == IF a <= b THEN a ELSE b

Max(a, b) == IF a >= b THEN a ELSE b

\* The number of bits of the natural number n (0 for 0).
BitLen(n) == CHOOSE k \in 0..30 : n < 2^k /\ (k = 0 \/ 2^(k-1) <= n)

NaN == [cls |-> "nan", m |-> 0, e |-> 0]
PosInf == [cls |-> "inf", m |-> 0, e |-> 0]
NegInf == [cls |-> "ninf", m |-> 0, e |-> 0]
Zero == [cls |-> "fin", m |-> 0, e |-> 0]

IsNaN(a) == a.cls = "nan"
IsFin(a) == a.cls = "fin"

\* The number of zero bits below the lowest set bit of n # 0.
TrailingZeros(n) == CHOOSE k \in 0..30 : n % 2^k = 0 /\ (n \div 2^k) % 2 = 1

\* m * 2^e with m made odd.
Norm(m, e) ==
  IF m = 0 THEN Zero
  ELSE LET z == TrailingZeros(Abs(m))
       IN [cls |-> "fin",
           m |-> IF m < 0 THEN -(Abs(m) \div 2^z) ELSE m \div 2^z,
           e |-> e + z]

\* The natural number n cut to PrecBits bits, to nearest, ties to even,
\* as the pair <<significand, bits dropped>>.
RoundNat(n) ==
  LET drop == Max(BitLen(n) - PrecBits, 0)
      q == n \div 2^drop
      rem == n % 2^drop
      half == IF drop = 0 THEN 1 ELSE 2^(drop - 1)
      up == drop > 0 /\ (rem > half \/ (rem = half /\ q % 2 = 1))
  IN <<IF up THEN q + 1 ELSE q, drop>>

\* The f64 nearest to m * 2^e: overflow gives an infinity, underflow zero.
Fl(m, e) ==
  LET r == RoundNat(Abs(m))
      v == Norm(IF m < 0 THEN -r[1] ELSE r[1], e + r[2])
  IN IF v.m = 0 THEN Zero
     ELSE IF v.e + BitLen(Abs(v.m)) - 1 > F64MaxExp
       THEN (IF m < 0 THEN NegInf ELSE PosInf)
     ELSE IF v.e + BitLen(Abs(v.m)) - 1 < F64MinExp THEN Zero
     ELSE v

F(m, e) == Norm(m, e)

Pow2(k) == [cls |-> "fin", m |-> 1, e |-> k]

\* floor(log2 |a|) + 1 of a finite nonzero a: 2^(Order-1) <= |a| < 2^Order.
Order(a) == a.e + BitLen(Abs(a.m))

Sign(a) ==
  CASE a.cls = "inf" -> 1
    [] a.cls = "ninf" -> -1
    [] a.cls = "nan" -> 0
    [] OTHER -> IF a.m > 0 THEN 1 ELSE IF a.m < 0 THEN -1 ELSE 0

\* a < b for finite positive a and b.
LtPos(a, b) ==
  IF Order(a) # Order(b) THEN Order(a) < Order(b)
  ELSE LET lo == Min(a.e, b.e)
       IN a.m * 2^(a.e - lo) < b.m * 2^(b.e - lo)

Neg(a) ==
  CASE a.cls = "inf" -> NegInf
    [] a.cls = "ninf" -> PosInf
    [] a.cls = "nan" -> NaN
    [] OTHER -> [a EXCEPT !.m = -a.m]

\* The comparison operators of f64: every comparison with a NaN is false.
Lt(a, b) ==
  IF IsNaN(a) \/ IsNaN(b) THEN FALSE
  ELSE IF a = b THEN FALSE
  ELSE IF a.cls = "ninf" \/ b.cls = "inf" THEN TRUE
  ELSE IF a.cls = "inf" \/ b.cls = "ninf" THEN FALSE
  ELSE IF Sign(a) # Sign(b) THEN Sign(a) < Sign(b)
  ELSE IF Sign(a) > 0 THEN LtPos(a, b)
  ELSE LtPos(Neg(b), Neg(a))

Le(a, b) == ~IsNaN(a) /\ ~IsNaN(b) /\ (a = b \/ Lt(a, b))

Gt(a, b) == Lt(b, a)

Ge(a, b) == Le(b, a)

\* a * b.
Mul(a, b) ==
  IF IsNaN(a) \/ IsNaN(b) THEN NaN
  ELSE IF ~IsFin(a) \/ ~IsFin(b)
    THEN (IF Sign(a) * Sign(b) = 0 THEN NaN
          ELSE IF Sign(a) * Sign(b) > 0 THEN PosInf ELSE NegInf)
  ELSE Fl(a.m * b.m, a.e + b.e)

\* a / b.
Div(a, b) ==
  IF IsNaN(a) \/ IsNaN(b) THEN NaN
  ELSE IF ~IsFin(a)
    THEN (IF ~IsFin(b) THEN NaN
          ELSE IF Sign(a) * (IF Sign(b) < 0 THEN -1 ELSE 1) > 0
            THEN PosInf ELSE NegInf)
  ELSE IF ~IsFin(b) THEN Zero
  ELSE IF b.m = 0
    THEN (IF a.m = 0 THEN NaN ELSE IF a.m > 0 THEN PosInf ELSE NegInf)
  ELSE IF a.m = 0 THEN Zero
  ELSE LET s == PrecBits + 2 + BitLen(Abs(b.m))
           num == Abs(a.m) * 2^s
           q == num \div Abs(b.m)
           \* a sticky bit keeps an inexact quotient off the rounding tie
           qs == IF num % Abs(b.m) = 0 THEN 2 * q ELSE 2 * q + 1
           sg == Sign(a) * Sign(b)
       IN Fl(sg * qs, a.e - b.e - s - 1)

\* a + b.
Add(a, b) ==
  IF IsNaN(a) \/ IsNaN(b) THEN NaN
  ELSE IF ~IsFin(a)
    THEN (IF ~IsFin(b) /\ a # b THEN NaN ELSE a)
  ELSE IF ~IsFin(b) THEN b
  ELSE IF a.m = 0 THEN b
  ELSE IF b.m = 0 THEN a
  ELSE IF Order(a) - Order(b) > PrecBits + 2 THEN a
  ELSE IF Order(b) - Order(a) > PrecBits + 2 THEN b
  ELSE LET lo == Min(a.e, b.e)
       IN Fl(a.m * 2^(a.e - lo) + b.m * 2^(b.e - lo), lo)

\* The integer part of a finite a, toward zero (f64::trunc), as an f64.
Trunc(a) ==
  IF ~IsFin(a) \/ a.e >= 0 THEN a
  ELSE IF Order(a) <= 0 THEN Zero
  ELSE LET q == Abs(a.m) \div 2^(-a.e)
       IN Norm(IF a.m < 0 THEN -q ELSE q, 0)

IsInteger(a) == IsFin(a) /\ a.e >= 0

\* f64::ceil.
Ceil(a) ==
  IF ~IsFin(a) \/ IsInteger(a) THEN a
  ELSE IF a.m > 0 THEN Add(Trunc(a), Pow2(0))
  ELSE Trunc(a)

\* f64::floor.
Floor(a) ==
  IF ~IsFin(a) \/ IsInteger(a) THEN a
  ELSE IF a.m < 0 THEN Add(Trunc(a), F(-1, 0))
  ELSE Trunc(a)

\* The selector is not running.
SelOff ==
  /\ spc = "off" /\ fn = "none" /\ delta = Zero /\ epsilon = Zero
  /\ checked = FALSE /\ minimum = <<>> /\ power_of_2 = <<>>
  /\ rres = <<>> /\ sres = <<>>

\* The commitments are not running.
CommitOff ==
  /\ cpc = "off" /\ corpus = 0 /\ commitments = <<>> /\ closed = <<>>
  /\ published = <<>> /\ opened = <<>> /\ gathered = <<>>

\* ceil_power_of_two is not running.
CeilOff ==
  /\ gpc = "off" /\ gx = Zero /\ exponent = Zero /\ val = Zero /\ gres = <<>>

\* The samplers' locals before a call.
SamplersIdle ==
  /\ left = 0 /\ right = 0 /\ iters = 0 /\ draws = 0 /\ exceeded = FALSE
  /\ geometric_sample = 0 /\ positive = FALSE
  /\ geores = <<>> /\ twores = <<>> /\ nres = <<>>

\* noise and the samplers are not running.
NoiseOff ==
  /\ npc = "off" /\ entry = "none" /\ l1_sensitivity = Zero
  /\ noise_epsilon = Zero /\ overflow_checks = FALSE
  /\ granularity = Zero /\ lambda = Zero
  /\ SamplersIdle

----------------------------------------------------------------------------
(* lib.rs: Commitment, ClosedCommitment, OpenedCommitment *)

\* Bits of the modelled u64 of the commitments, and the parties of a run.
WordBits == 3
MaxParties == 2

U64Max == 2^WordBits - 1
U128Modulus == 2^(2 * WordBits)

Ok(v) == [tag |-> "Ok", val |-> v]
Err(e) == [tag |-> "Err", val |-> e]

\* Commitment::new draws p uniformly from 0 ..= n * (u64::MAX / n).
NewRange(n) == 0 .. n * (U64Max \div n)

\* write_u64::<NetworkEndian>: the bits of p, most significant first.
NetworkEndian(p) == [i \in 1..WordBits |-> (p \div 2^(WordBits - i)) % 2]

\* Sha256::digest, collision-free: the digest names the buffer it was taken of.
Sha256(buf) == <<"sha256", buf>>

\* Commitment::commit.
CommitOf(c) == [n |-> c.n, hash |-> Sha256(NetworkEndian(c.p))]

\* Commitment::publish.
PublishOf(c) == c.p

\* ClosedCommitment::validate.
Validate(cc, p) ==
  LET commitment == [n |-> cc.n, p |-> p]
      hash == CommitOf(commitment).hash
  IN IF hash = cc.hash THEN Ok([n |-> cc.n, p |-> p])
     ELSE Err("HashMismatch")

\* The loop of OpenedCommitment::gather from element i on, with the running
\* sum (a u128) and n (an Option<u64>, None as <<>>).
RECURSIVE GatherLoop(_, _, _, _)
GatherLoop(ocs, i, sum, n) ==
  IF i > Len(ocs)
    THEN (IF n = <<>> THEN Err("EmptyCorpus")
          ELSE Ok((sum % n[1]) % (U64Max + 1)))
  ELSE LET n1 == IF n = <<>> THEN <<ocs[i].n>> ELSE n
       IN IF n1[1] # ocs[i].n THEN Err("CorpusSizeMismatch")
          ELSE GatherLoop(ocs, i + 1, (sum + ocs[i].p) % U128Modulus, n1)

RECURSIVE SumP(_, _)
SumP(cs, i) == IF i > Len(cs) THEN 0 ELSE cs[i].p + SumP(cs, i + 1)

\* gather with the reduction modulo n forgotten.
GatherNoModulo(ocs) ==
  IF ocs = <<>> THEN Err("EmptyCorpus") ELSE Ok(SumP(ocs, 1) % (U64Max + 1))

\* OpenedCommitment::gather.
Gather(ocs) == GatherLoop(ocs, 1, 0, <<>>)

CommitInit ==
  /\ cpc = "new"
  /\ corpus \in 0..U64Max
  /\ commitments = <<>>
  /\ closed = <<>>
  /\ published = <<>>
  /\ opened = <<>>
  /\ gathered = <<>>
  /\ CeilOff /\ SelOff /\ NoiseOff

\* Commitment::new(n): u64::MAX / n panics for n = 0.
NewPanics ==
  /\ cpc = "new" /\ corpus = 0
  /\ cpc' = "panic"
  /\ UNCHANGED <<corpus, commitments, closed, published, opened, gathered, commitOthers>>

NewCommitment ==
  /\ cpc = "new" /\ corpus # 0
  /\ Len(commitments) < MaxParties
  /\ \E p \in NewRange(corpus) :
       commitments' = Append(commitments, [n |-> corpus, p |-> p])
  /\ UNCHANGED <<cpc, corpus, closed, published, opened, gathered, commitOthers>>

\* commitments.iter().map(|c| c.commit()) and .map(|c| c.publish())
CommitAll ==
  /\ cpc = "new" /\ Len(commitments) > 0
  /\ closed' = [i \in 1..Len(commitments) |-> CommitOf(commitments[i])]
  /\ published' = [i \in 1..Len(commitments) |-> PublishOf(commitments[i])]
  /\ cpc' = "validate"
  /\ UNCHANGED <<corpus, commitments, opened, gathered, commitOthers>>

\* closed_commitment.validate(*p) of the next zipped pair
ValidateNext ==
  /\ cpc = "validate" /\ Len(opened) < Len(closed)
  /\ opened' = Append(opened,
                  Validate(closed[Len(opened) + 1], published[Len(opened) + 1]))
  /\ UNCHANGED <<cpc, corpus, commitments, closed, published, gathered, commitOthers>>

GatherAll ==
  /\ cpc = "validate" /\ Len(opened) = Len(closed)
  /\ \A i \in 1..Len(opened) : opened[i].tag = "Ok"
  /\ gathered' = Gather([i \in 1..Len(opened) |-> opened[i].val])
  /\ cpc' = "done"
  /\ UNCHANGED <<corpus, commitments, closed, published, opened, commitOthers>>

CommitNext == NewPanics \/ NewCommitment \/ CommitAll \/ ValidateNext \/ GatherAll

SpecCommit == CommitInit /\ [][CommitNext]_vars

\* C1: with every commitment created with the same n >= 1, each validate of
\* a closed form against its own published value is Ok, and gather returns
\* Ok(index) with index = (sum of the published p) mod n, so index < n.
C1_GatherIndex ==
  /\ \A i \in 1..Len(opened) :
       opened[i] = Ok([n |-> corpus, p |-> commitments[i].p])
  /\ cpc = "done" =>
       /\ gathered = Ok(SumP(commitments, 1) % corpus)
       /\ gathered.val < corpus

\* gather has returned for MaxParties commitments whose p sum to n or more.
C1_Witness ==
  /\ cpc = "done" /\ Len(opened) = MaxParties
  /\ SumP(commitments, 1) >= corpus /\ gathered.tag = "Ok"

----------------------------------------------------------------------------
(* laplace.rs: ceil_power_of_two, get_granularity *)

\* The integer an integer-valued finite f64 holds.
ToInt(a) == a.m * 2^a.e

\* f64::exp2 of an integer-valued argument: exact, infinite past 2^1023.
Exp2(a) == IF ToInt(a) > F64MaxExp THEN PosInf ELSE Pow2(ToInt(a))

\* ceil_power_of_two's first guard.
BelowDomain(x) == Lt(x, Zero)

\* ceil_power_of_two's second guard.
AboveDomain(x) == Gt(x, Exp2(F(F64MaxExp, 0)))

\* The loop condition of ceil_power_of_two.
CeilContinues(v, x) == Lt(v, x)

\* GRANULARITY_PARAM is 2^40.
GranularityExp == 40
GRANULARITY_PARAM == Pow2(GranularityExp)

\* get_granularity's result from that of ceil_power_of_two: `?` passes the
\* error on.
GranularityOf(c) ==
  IF c.tag = "Err" THEN c ELSE Ok(Div(c.val, GRANULARITY_PARAM))

\* The arguments ceil_power_of_two is called with.
CeilMantissas == {-3, -1, 0, 1, 3, 5, 7}
CeilExponents ==
  {F64MinExp, -41, -3, -2, -1, 0, 1, 2, 3, 40, F64MaxExp - 2, F64MaxExp - 1, F64MaxExp}
CeilInputs ==
  {Fl(m, e) : m \in CeilMantissas, e \in CeilExponents} \cup {NaN, PosInf, NegInf}

CeilInit ==
  /\ gpc = "call" /\ gx \in CeilInputs /\ gres = <<>>
  /\ exponent = Zero /\ val = Zero
  /\ CommitOff /\ SelOff /\ NoiseOff

\* ceil_power_of_two up to the loop: the two guards, then exponent = 0.0 and
\* val = exponent.exp2().
CeilEnter ==
  /\ gpc = "call"
  /\ IF BelowDomain(gx) \/ AboveDomain(gx)
       THEN /\ gres' = Err("ParameterError")
            /\ gpc' = "ret"
            /\ UNCHANGED <<exponent, val>>
       ELSE /\ exponent' = Zero
            /\ val' = Exp2(Zero)
            /\ gpc' = "loop"
            /\ UNCHANGED gres
  /\ UNCHANGED <<gx, ceilOthers>>

\* One turn of the loop: exponent += 1.0; val = exponent.exp2().
CeilStep ==
  /\ gpc = "loop" /\ CeilContinues(val, gx)
  /\ exponent' = Add(exponent, Pow2(0))
  /\ val' = Exp2(exponent')
  /\ UNCHANGED <<gpc, gx, gres, ceilOthers>>

\* The loop's exit: Ok(val).
CeilExit ==
  /\ gpc = "loop" /\ ~CeilContinues(val, gx)
  /\ gres' = Ok(val)
  /\ gpc' = "ret"
  /\ UNCHANGED <<gx, exponent, val, ceilOthers>>

CeilNext == CeilEnter \/ CeilStep \/ CeilExit

SpecCeil == CeilInit /\ [][CeilNext]_vars

IsPow2(a) == IsFin(a) /\ a.m = 1

\* C2: for 0 <= x <= 2^1023 ceil_power_of_two(x) is a power of two v >= x
\* with v/2 < x, except that it is 1 for x = 0; for x < 0 and for
\* x > 2^1023 it is a ParameterError.
C2_SmallestPowerOfTwo ==
  gpc = "ret" =>
    /\ (Lt(gx, Zero) \/ Gt(gx, Pow2(F64MaxExp))) => gres = Err("ParameterError")
    /\ (Ge(gx, Zero) /\ Le(gx, Pow2(F64MaxExp))) =>
         /\ gres.tag = "Ok"
         /\ IsPow2(gres.val)
         /\ Ge(gres.val, gx)
         /\ gx = Zero => gres.val = Pow2(0)
         /\ gx # Zero => Lt(Div(gres.val, Pow2(1)), gx)

----------------------------------------------------------------------------
(* lib.rs: k, r, round_to_nearest_multiple, laplace *)

Panic(msg) == [tag |-> "Panic", val |-> msg]

One == Pow2(0)
Two == Pow2(1)

\* Fraction bits the model's log2 computes before rounding to PrecBits.
LogFracBits == 4

\* The first n bits of the fraction of log2(y / 2^14), for 2^14 <= y < 2^15,
\* by repeated squaring; acc holds the bits found so far.
RECURSIVE LogBits(_, _, _)
LogBits(y, n, acc) ==
  IF n = 0 THEN acc
  ELSE LET y2 == (y * y) \div 2^14
       IN IF y2 >= 2^15 THEN LogBits(y2 \div 2, n - 1, 2 * acc + 1)
          ELSE LogBits(y2, n - 1, 2 * acc)

\* f64::log2: exact on a power of two, and otherwise strictly between the two
\* integers around it.
Log2(a) ==
  IF IsNaN(a) \/ Sign(a) < 0 THEN NaN
  ELSE IF a.cls = "inf" THEN PosInf
  ELSE IF a.m = 0 THEN NegInf
  ELSE IF a.m = 1 THEN F(a.e, 0)
  ELSE LET len == BitLen(a.m)
           frac == Max(1, LogBits(a.m * 2^(15 - len), LogFracBits, 0))
       IN Fl((Order(a) - 1) * 2^LogFracBits + frac, -LogFracBits)

\* The bounds of i32.
I32Max == 2147483647
I32Min == -I32Max - 1

\* `as i32` of an f64: toward zero, saturating, 0 for a NaN.
F64ToI32(a) ==
  CASE a.cls = "nan" -> 0
    [] a.cls = "inf" -> I32Max
    [] a.cls = "ninf" -> I32Min
    [] OTHER ->
         LET t == Trunc(a)
         IN IF t.m = 0 THEN 0
            ELSE IF Order(t) > 31 THEN (IF t.m > 0 THEN I32Max ELSE I32Min)
            ELSE ToInt(t)

\* 2.0_f64.powi(n)
Powi2(n) ==
  IF n > F64MaxExp THEN PosInf
  ELSE IF n < F64MinExp THEN Zero
  ELSE Pow2(n)

\* 1.0e-32, k's smallest epsilon: 0x1.9f623d5a8a733p-107, to 10 bits.
EpsilonMin == F(831, -116)

\* The bound of k's assertion, 107.0.
AdditionBound == 107

\* k's base bit width, the 10 of `10 + addition.trunc() as i32`.
KBase == 10

\* 1.0 + (2.0 / epsilon).log2()
Addition(eps) == Add(One, Log2(Div(Two, eps)))

\* k(epsilon)
K(eps) ==
  IF Lt(eps, EpsilonMin) THEN Err("ParameterError")
  ELSE IF ~Lt(Addition(eps), F(AdditionBound, 0))
    THEN Panic("assertion failed: addition < 107.0_f64")
  ELSE Ok(KBase + F64ToI32(Trunc(Addition(eps))))

\* Bits of a u64; a u64 is a sequence of them, least significant first.
U64Bits == 64

ZeroBits == [i \in 1..U64Bits |-> 0]
OneBits == [i \in 1..U64Bits |-> IF i = 1 THEN 1 ELSE 0]
AllOnes == [i \in 1..U64Bits |-> 1]

\* Bit j (from 0) of the natural number m.
BitOf(m, j) == IF j < 0 \/ j > 30 THEN 0 ELSE (m \div 2^j) % 2

\* `as u64` of an f64: toward zero, saturating, 0 for a NaN.
F64ToU64(a) ==
  CASE a.cls = "nan" -> ZeroBits
    [] a.cls = "inf" -> AllOnes
    [] a.cls = "ninf" -> ZeroBits
    [] OTHER ->
         LET t == Trunc(a)
         IN IF t.m <= 0 THEN ZeroBits
            ELSE IF Order(t) > U64Bits THEN AllOnes
            ELSE [i \in 1..U64Bits |-> BitOf(t.m, i - 1 - t.e)]

\* b + 1, wrapping.
Inc(b) ==
  [i \in 1..U64Bits |->
     IF \A j \in 1..(i - 1) : b[j] = 1 THEN 1 - b[i] ELSE b[i]]

\* b >> 1 and b << 1: the bit shifted out is lost.
Shr1(b) == Tail(b) \o <<0>>
Shl1(b) == <<0>> \o SubSeq(b, 1, U64Bits - 1)

\* The index (from 1) of the highest set bit of b, 0 for zero.
TopBit(b) ==
  IF b = ZeroBits THEN 0
  ELSE CHOOSE i \in 1..U64Bits : b[i] = 1 /\ \A j \in (i + 1)..U64Bits : b[j] = 0

\* `as f64` of a u64: to nearest.
U64ToF64(b) ==
  IF b = ZeroBits THEN Zero
  ELSE LET h == TopBit(b)
           lo == Max(1, h - PrecBits - 1)
           RECURSIVE Window(_)
           Window(i) == IF i < lo THEN 0 ELSE b[i] * 2^(i - lo) + Window(i - 1)
           sticky == IF \E j \in 1..(lo - 1) : b[j] = 1 THEN 1 ELSE 0
       IN Fl(2 * Window(h) + sticky, lo - 2)

\* (delta / epsilon) * 2.0_f64.powi(k)
MinimumF(d, eps, kk) == Mul(Div(d, eps), Powi2(kk))

\* r's loop condition, minimum > 0.
RContinues(m) == m # ZeroBits

\* round_to_nearest_multiple(delta, r)
RoundToNearestMultiple(d, rr) == Mul(rr, Ceil(Div(d, rr)))

\* The values laplace can return once the exponent t of
\* proportional_prob_1 = t.exp() is known: prob_0 = 1 / (1 + exp(t)), and the
\* sample, uniform in [0, 1), selects 0 when sample <= prob_0.
Selects(t) ==
  CASE t.cls = "nan" -> {1}
    [] t.cls = "ninf" -> {0}
    [] OTHER -> {0, 1}

\* -1.0_f64 * r * epsilon / delta_subscript_r
ProbExponent(d, eps, rr) ==
  Div(Mul(Mul(F(-1, 0), rr), eps), RoundToNearestMultiple(d, rr))

\* The arguments the selector is called with.
EpsilonInputs ==
  {F(m, e) : m \in {1, 3, 5, 7}, e \in {-110, -109, -108, -107, -106, -105, -104, -1, 0, 1, 2}}
    \cup {Zero, F(-1, 0), Pow2(F64MaxExp), NaN, PosInf, EpsilonMin, Pow2(12)}
DeltaInputs ==
  {F(m, e) : m \in {1, 3}, e \in {-3, 0, 1, 10, 49, 50, 51, 52}}
    \cup {Zero, F(-1, 0), Pow2(F64MaxExp), NaN, PosInf}

SelInit ==
  /\ spc = "call"
  /\ fn \in {"k", "r", "laplace"}
  /\ epsilon \in EpsilonInputs
  /\ delta \in IF fn = "k" THEN {Zero} ELSE DeltaInputs
  /\ checked \in IF fn = "k" THEN {FALSE} ELSE BOOLEAN
  /\ minimum = ZeroBits /\ power_of_2 = ZeroBits
  /\ rres = <<>> /\ sres = <<>>
  /\ CommitOff /\ CeilOff /\ NoiseOff

\* k(epsilon), called alone.
CallK ==
  /\ spc = "call" /\ fn = "k"
  /\ sres' = K(epsilon)
  /\ spc' = "ret"
  /\ UNCHANGED <<fn, delta, epsilon, checked, minimum, power_of_2, rres, selOthers>>

\* laplace up to its call of r: the guard delta <= 0.
LaplaceEnter ==
  /\ spc = "call" /\ fn = "laplace"
  /\ IF Le(delta, Zero)
       THEN sres' = Err("ParameterError") /\ spc' = "ret"
       ELSE sres' = sres /\ spc' = "r"
  /\ UNCHANGED <<fn, delta, epsilon, checked, minimum, power_of_2, rres, selOthers>>

\* What returning v from r does: r's caller is the harness or laplace.
RReturns(v) ==
  /\ rres' = v
  /\ IF fn = "r" THEN sres' = v /\ spc' = "ret"
     ELSE sres' = sres /\ spc' = "rret"

\* r up to its loop: the guards, k(epsilon)?, then
\* minimum = (minimum.trunc() as u64) + 1 and power_of_2 = 1.  The + 1 panics
\* on overflow in a checked build and wraps in an unchecked one.
REnter ==
  /\ (spc = "call" /\ fn = "r") \/ (spc = "r" /\ fn = "laplace")
  /\ IF Le(epsilon, Zero) \/ Lt(delta, Zero)
       THEN RReturns(Err("ParameterError")) /\ UNCHANGED <<minimum, power_of_2>>
     ELSE IF K(epsilon).tag # "Ok"
       THEN RReturns(K(epsilon)) /\ UNCHANGED <<minimum, power_of_2>>
     ELSE LET conv == F64ToU64(Trunc(MinimumF(delta, epsilon, K(epsilon).val)))
          IN IF conv = AllOnes /\ checked
               THEN /\ RReturns(Panic("attempt to add with overflow"))
                    /\ UNCHANGED <<minimum, power_of_2>>
             ELSE /\ minimum' = Inc(conv)
                  /\ power_of_2' = OneBits
                  /\ spc' = "loop"
                  /\ UNCHANGED <<rres, sres>>
  /\ UNCHANGED <<fn, delta, epsilon, checked, selOthers>>

\* One turn of r's loop: minimum >>= 1; power_of_2 <<= 1.
RStep ==
  /\ spc = "loop" /\ RContinues(minimum)
  /\ minimum' = Shr1(minimum)
  /\ power_of_2' = Shl1(power_of_2)
  /\ UNCHANGED <<spc, fn, delta, epsilon, checked, rres, sres, selOthers>>

\* The loop's exit: Ok(power_of_2 as f64).
RExit ==
  /\ spc = "loop" /\ ~RContinues(minimum)
  /\ RReturns(Ok(U64ToF64(power_of_2)))
  /\ UNCHANGED <<fn, delta, epsilon, checked, minimum, power_of_2, selOthers>>

\* laplace after r: `?` passes an error (and a panic unwinds); otherwise the
\* sample selects 0 or 1.
LaplaceFinish ==
  /\ spc = "rret"
  /\ IF rres.tag # "Ok" THEN sres' = rres
     ELSE \E i \in Selects(ProbExponent(delta, epsilon, rres.val)) : sres' = Ok(i)
  /\ spc' = "ret"
  /\ UNCHANGED <<fn, delta, epsilon, checked, minimum, power_of_2, rres, selOthers>>

SelNext == CallK \/ LaplaceEnter \/ REnter \/ RStep \/ RExit \/ LaplaceFinish

SpecSelector == SelInit /\ [][SelNext]_vars

\* C5: k(epsilon) is Ok(10 + floor(1 + log2(2/epsilon))) for every
\* epsilon >= 1e-32, and a ParameterError for every epsilon < 1e-32.
C5_KValue ==
  (spc = "ret" /\ fn = "k") =>
    /\ Ge(epsilon, EpsilonMin) =>
         /\ sres.tag = "Ok"
         /\ sres.val = KBase + F64ToI32(Floor(Addition(epsilon)))
    /\ Lt(epsilon, EpsilonMin) => sres.tag = "Err"

\* C9: the assertion of k holds for every epsilon its guard lets through,
\* so k, r and laplace return Ok or a ParameterError and never panic.
C9_NoPanic ==
  (spc = "ret" /\ Ge(epsilon, EpsilonMin)) => sres.tag \in {"Ok", "Err"}

\* The minimum r is to reach: floor(delta/epsilon * 2^k(epsilon)) + 1.
ClaimedMinimumF == Add(Floor(MinimumF(delta, epsilon, K(epsilon).val)), One)

\* C6: for delta >= 0 and epsilon > 0 with k(epsilon) Ok, r returns an exact
\* power of two >= floor(delta/epsilon * 2^k(epsilon)) + 1, however large
\* that minimum is; for epsilon <= 0 or delta < 0 it is a ParameterError.
C6_PowerOfTwoAtLeastMinimum ==
  (spc = "ret" /\ fn = "r") =>
    /\ (Le(epsilon, Zero) \/ Lt(delta, Zero)) => sres.tag = "Err"
    /\ (Ge(delta, Zero) /\ Gt(epsilon, Zero) /\ K(epsilon).tag = "Ok") =>
         /\ sres.tag = "Ok"
         /\ IsPow2(sres.val)
         /\ Ge(sres.val, ClaimedMinimumF)

\* a < b for two u64.
LtBits(a, b) ==
  \E i \in 1..U64Bits : a[i] < b[i] /\ \A j \in (i + 1)..U64Bits : a[j] = b[j]

\* The u64 floor(delta/epsilon * 2^k(epsilon)) + 1, when it is below 2^63.
MinimumFits ==
  /\ Ge(delta, Zero) /\ Gt(epsilon, Zero) /\ K(epsilon).tag = "Ok"
  /\ LET t == Trunc(MinimumF(delta, epsilon, K(epsilon).val))
     IN IsFin(t) /\ (t.m = 0 \/ Order(t) < U64Bits - 1)
ClaimedMinimum == Inc(F64ToU64(Trunc(MinimumF(delta, epsilon, K(epsilon).val))))

\* C7: the value r returns is the smallest power of two >= minimum: it is
\* >= minimum and its half is < minimum, also when minimum is itself a power
\* of two.  (Stated where minimum is below 2^63; past that see C6.)
C7_SmallestPowerOfTwo ==
  (spc = "ret" /\ fn = "r" /\ MinimumFits) =>
    /\ sres.tag = "Ok"
    /\ IsPow2(sres.val)
    /\ ~LtBits(F64ToU64(sres.val), ClaimedMinimum)
    /\ LtBits(Shr1(F64ToU64(sres.val)), ClaimedMinimum)

----------------------------------------------------------------------------
(* laplace.rs: sample_geometric, sample_two_sided_geometric, noise *)

\* Bits of the modelled i64.
I64Bits == 5

I64Max == 2^(I64Bits - 1) - 1
I64Min == -I64Max - 1

\* The i64 an integer wraps to (two's complement).
WrapI64(n) == ((n - I64Min) % 2^I64Bits) + I64Min

\* i64::wrapping_neg
WrappingNeg(n) == WrapI64(-n)

\* `as f64` of an i64.
I64ToF64(n) == Fl(n, 0)

\* `as i64` of an f64: toward zero, saturating, 0 for a NaN.
F64ToI64(a) ==
  CASE a.cls = "nan" -> 0
    [] a.cls = "inf" -> I64Max
    [] a.cls = "ninf" -> I64Min
    [] OTHER ->
         LET t == Trunc(a)
         IN IF t.m = 0 THEN 0
            ELSE IF Order(t) > I64Bits - 1 THEN (IF t.m > 0 THEN I64Max ELSE I64Min)
            ELSE ToInt(t)

\* f64::round: to the nearest integer, halves away from zero.
Round(a) ==
  IF ~IsFin(a) \/ IsInteger(a) THEN a
  ELSE Trunc(Add(a, F(IF a.m > 0 THEN 1 ELSE -1, -1)))

\* libm::exp2(-59.0), the bound of sample_geometric's guard.
LambdaMinExp == -59

\* sample_geometric's guard with < in place of <=.
LambdaBelowBound(l) == Lt(l, Pow2(LambdaMinExp))

\* sample_geometric's guard, lambda <= 2^-59.
LambdaTooSmall(l) == Le(l, Pow2(LambdaMinExp))

\* From 2^6 on exp(-x) is below half an ulp of 1.0, so that libm::expm1(-x)
\* is exactly -1.0.
SaturationExp == 6

\* The outcomes of `next_double(rng) > -1.0 * libm::expm1(-1.0 * lambda *
\* (i64::MAX as f64))` over the draws in [0, 1).  A comparison with a NaN is
\* false; once lambda * i64::MAX reaches 2^6 the right side is exactly 1.0,
\* which no draw exceeds; below that the outcome is left to the draw.
ExceedsTailMass(l) ==
  IF IsNaN(l) \/ Ge(Mul(l, I64ToF64(I64Max)), Pow2(SaturationExp))
    THEN {FALSE}
  ELSE BOOLEAN

\* Values of (libm::log(0.5) + libm::log1p(libm::exp(lambda * ((left - right)
\* as f64)))) / lambda for a finite lambda >= 1 and left + 1 < right: the
\* quotient lies in [-ln 2, 0), about -1/2 for a lambda near 1 and tiny for
\* a large one.
QuotientsFromOne == {F(-1, -1), F(-1, -(2 * PrecBits))}

\* The values of `libm::ceil(left as f64 - (libm::log(0.5) + libm::log1p(
\* libm::exp(lambda * ((left - right) as f64)))) / lambda) as i64`.  A NaN
\* casts to 0; an infinite lambda makes the quotient -0.0; for a finite
\* lambda >= 1 the quotient is one of QuotientsFromOne; for a smaller lambda
\* the libm value is not computed here and may be any i64, of which those
\* from left to right are drawn: the clamp takes a smaller one for left and
\* a larger one for right.
MidRaws(l, lft, rgt) ==
  IF IsNaN(l) THEN {0}
  ELSE IF l.cls = "inf" THEN {F64ToI64(Ceil(I64ToF64(lft)))}
  ELSE IF Ge(l, One)
    THEN {F64ToI64(Ceil(Add(I64ToF64(lft), Neg(qt)))) : qt \in QuotientsFromOne}
  ELSE lft..rgt

\* The midpoint without the clamp.
MidUnclamped(raw, lft, rgt) == raw

\* cmp::min(cmp::max(mid, left + 1), right - 1)
Mid(raw, lft, rgt) == Min(Max(raw, lft + 1), rgt - 1)

\* The outcomes of `next_double(rng) <= q`, q = libm::expm1(lambda * ((left -
\* mid) as f64)) / libm::expm1(lambda * ((left - right) as f64)).  q is NaN
\* for a NaN lambda; it is exactly 1.0 once lambda * (mid - left) reaches
\* 2^6; below that q is in (0, 1) and the outcome is left to the draw.
LeftHalf(l, lft, mid) ==
  IF IsNaN(l) THEN {FALSE}
  ELSE IF Le(Mul(l, I64ToF64(lft - mid)), Neg(Pow2(SaturationExp))) THEN {TRUE}
  ELSE BOOLEAN

\* The bisection loop's condition.
BisectContinues(lft, rgt) == lft + 1 < rgt

\* sample_two_sided_geometric's loop condition with || in place of &&.
TwoContinuesEither(gs, pos) == gs = 0 \/ ~pos

\* sample_two_sided_geometric's loop condition.
TwoContinues(gs, pos) == gs = 0 /\ ~pos

\* The arguments the samplers and noise are called with.
LambdaInputs ==
  {Pow2(LambdaMinExp - 1), Pow2(LambdaMinExp), F(3, LambdaMinExp - 1),
   Pow2(-GranularityExp), One, F(3, 0), Pow2(SaturationExp),
   PosInf, NaN, Zero, F(-1, 0)}
SensitivityInputs ==
  {Zero, One, Pow2(GranularityExp + 1), Pow2(GranularityExp + I64Bits - 2),
   Pow2(GranularityExp + I64Bits)}
NoiseEpsilonInputs == {One, Pow2(LambdaMinExp - 1), Zero}

NoiseInit ==
  /\ entry \in {"two_sided", "noise"}
  /\ npc = IF entry = "two_sided" THEN "t_call" ELSE "n_call"
  /\ lambda \in IF entry = "noise" THEN {Zero} ELSE LambdaInputs
  /\ l1_sensitivity \in IF entry = "noise" THEN SensitivityInputs ELSE {Zero}
  /\ noise_epsilon \in IF entry = "noise" THEN NoiseEpsilonInputs ELSE {Zero}
  /\ overflow_checks = FALSE
  /\ granularity = Zero
  /\ SamplersIdle
  /\ CommitOff /\ CeilOff /\ SelOff

\* sample_geometric up to its loop: the guard, the first draw, and either the
\* truncated sample i64::MAX or left = 0, right = i64::MAX.
GeoEnter ==
  /\ npc = "g_call"
  /\ iters' = 0
  /\ IF LambdaTooSmall(lambda)
       THEN /\ geores' = Err("ParameterError")
            /\ npc' = "g_ret"
            /\ draws' = 0
            /\ UNCHANGED <<left, right, exceeded>>
       ELSE \E ex \in ExceedsTailMass(lambda) :
              /\ exceeded' = ex
              /\ draws' = 1
              /\ IF ex
                   THEN /\ geores' = Ok(I64Max)
                        /\ npc' = "g_ret"
                        /\ UNCHANGED <<left, right>>
                   ELSE /\ left' = 0
                        /\ right' = I64Max
                        /\ npc' = "g_loop"
                        /\ UNCHANGED geores
  /\ UNCHANGED <<lambda, noiseArgs, granularity, twoVars, nres, ceilVars, overflow_checks,
                 noiseOthers>>

\* One turn of the bisection loop: the clamped midpoint, a draw, and the
\* narrowing to the left or the right half.
GeoStep ==
  /\ npc = "g_loop" /\ BisectContinues(left, right)
  /\ \E raw \in MidRaws(lambda, left, right) :
       LET mid == Mid(raw, left, right)
       IN \E le \in LeftHalf(lambda, left, mid) :
            IF le THEN right' = mid /\ left' = left
            ELSE left' = mid /\ right' = right
  /\ iters' = iters + 1
  /\ draws' = draws + 1
  /\ UNCHANGED <<npc, lambda, exceeded, geores, noiseArgs, granularity, twoVars,
                 nres, ceilVars, overflow_checks,
                 noiseOthers>>

\* The loop's exit: Ok(right).
GeoExit ==
  /\ npc = "g_loop" /\ ~BisectContinues(left, right)
  /\ geores' = Ok(right)
  /\ npc' = "g_ret"
  /\ UNCHANGED <<lambda, left, right, iters, draws, exceeded, noiseArgs,
                 granularity, twoVars, nres, ceilVars, overflow_checks,
                 noiseOthers>>

\* sample_two_sided_geometric's locals: geometric_sample = 0, positive = false.
TwoEnter ==
  /\ npc = "t_call"
  /\ geometric_sample' = 0
  /\ positive' = FALSE
  /\ npc' = "t_loop"
  /\ UNCHANGED <<twores, geoVars, noiseArgs, granularity, nres, ceilVars, overflow_checks,
                 noiseOthers>>

\* The loop goes on: sample_geometric(rng, lambda) is called.
TwoAgain ==
  /\ npc = "t_loop" /\ TwoContinues(geometric_sample, positive)
  /\ npc' = "g_call"
  /\ UNCHANGED <<twoVars, geoVars, noiseArgs, granularity, nres, ceilVars, overflow_checks,
                 noiseOthers>>

\* sample_geometric has returned into the loop and its locals are gone: `?`
\* passes an error on; otherwise geometric_sample = sample - 1 and positive
\* is drawn.
TwoDraw ==
  /\ npc = "g_ret"
  /\ IF geores.tag = "Err"
       THEN /\ twores' = geores
            /\ npc' = "t_ret"
            /\ UNCHANGED <<geometric_sample, positive>>
       ELSE /\ geometric_sample' = geores.val - 1
            /\ positive' \in BOOLEAN
            /\ npc' = "t_loop"
            /\ UNCHANGED twores
  /\ left' = 0 /\ right' = 0 /\ iters' = 0 /\ draws' = 0 /\ exceeded' = FALSE
  /\ UNCHANGED <<lambda, geores, noiseArgs, granularity, nres, ceilVars,
                 overflow_checks, noiseOthers>>

\* The loop ends: the sample, negated with wrapping_neg unless positive.
TwoAccept ==
  /\ npc = "t_loop" /\ ~TwoContinues(geometric_sample, positive)
  /\ twores' = Ok(IF positive THEN geometric_sample
                  ELSE WrappingNeg(geometric_sample))
  /\ npc' = "t_ret"
  /\ UNCHANGED <<geometric_sample, positive, geoVars, noiseArgs, granularity,
                 nres, ceilVars, overflow_checks,
                 noiseOthers>>

\* noise calls get_granularity, which calls
\* ceil_power_of_two(l1_sensitivity / epsilon).
NoiseEnter ==
  /\ npc = "n_call"
  /\ gx' = Div(l1_sensitivity, noise_epsilon)
  /\ gpc' = "call"
  /\ npc' = "n_gran"
  /\ UNCHANGED <<exponent, val, gres, noiseArgs, granularity, geoVars, twoVars,
                 nres, overflow_checks,
                 noiseOthers>>

\* ceil_power_of_two has returned: get_granularity's `?` and noise's pass an
\* error on; otherwise noise calls sample_two_sided_geometric with
\* granularity * epsilon / (l1_sensitivity + granularity).
NoiseLambda ==
  /\ npc = "n_gran" /\ gpc = "ret"
  /\ IF GranularityOf(gres).tag = "Err"
       THEN /\ nres' = GranularityOf(gres)
            /\ npc' = "n_ret"
            /\ UNCHANGED <<granularity, lambda>>
       ELSE /\ granularity' = GranularityOf(gres).val
            /\ lambda' = Div(Mul(granularity', noise_epsilon),
                             Add(l1_sensitivity, granularity'))
            /\ npc' = "t_call"
            /\ UNCHANGED nres
  /\ UNCHANGED <<left, right, iters, draws, exceeded, geores, twoVars,
                 noiseArgs, ceilVars, overflow_checks,
                 noiseOthers>>

\* two_sided_geometric_sample * granularity.trunc() as i64: the product
\* panics on overflow in a checked build and wraps in an unchecked one.
ScaleByInteger(sample, g, checks) ==
  LET product == sample * F64ToI64(Trunc(g))
  IN IF product < I64Min \/ product > I64Max
       THEN (IF checks THEN Panic("attempt to multiply with overflow")
             ELSE Ok(WrapI64(product)))
     ELSE Ok(product)

\* (two_sided_geometric_sample as f64 * granularity).round() as i64
ScaleByFraction(sample, g) == Ok(F64ToI64(Round(Mul(I64ToF64(sample), g))))

\* sample_two_sided_geometric has returned into noise: `?` passes an error
\* on; otherwise the sample is scaled by the granularity.  The build shows
\* only here, so it is here that overflow_checks is drawn.
NoiseFinish ==
  /\ npc = "t_ret" /\ entry = "noise"
  /\ overflow_checks' \in BOOLEAN
  /\ nres' = IF twores.tag = "Err" THEN twores
             ELSE IF Le(granularity, One)
               THEN ScaleByFraction(twores.val, granularity)
             ELSE ScaleByInteger(twores.val, granularity, overflow_checks')
  /\ npc' = "n_ret"
  /\ UNCHANGED <<noiseArgs, granularity, geoVars, twoVars, ceilVars, noiseOthers>>

NoiseNext ==
  \/ GeoEnter \/ GeoStep \/ GeoExit
  \/ TwoEnter \/ TwoAgain \/ TwoDraw \/ TwoAccept
  \/ NoiseEnter \/ CeilEnter \/ CeilStep \/ CeilExit \/ NoiseLambda \/ NoiseFinish

SpecNoise == NoiseInit /\ [][NoiseNext]_vars

\* C4: sample_geometric(lambda) is a ParameterError for every lambda <= 2^-59,
\* 2^-59 included, with no random value drawn; for every lambda > 2^-59 and
\* all draws it is Ok(v) with 0 <= v <= i64::MAX, and it is Ok(i64::MAX)
\* straight after the first draw when that draw exceeds the tail mass.
C4_GeometricRange ==
  npc = "g_ret" =>
    /\ Le(lambda, Pow2(LambdaMinExp)) =>
         /\ geores.tag = "Err" /\ geores.val = "ParameterError"
         /\ draws = 0
    /\ Gt(lambda, Pow2(LambdaMinExp)) =>
         /\ geores.tag = "Ok"
         /\ geores.val >= 0 /\ geores.val <= I64Max
         /\ draws >= 1
         /\ exceeded => (geores.val = I64Max /\ draws = 1 /\ iters = 0)

\* sample_geometric has rejected lambda = 2^-59 before any draw.
C4_Witness ==
  /\ npc = "g_ret"
  /\ lambda = Pow2(LambdaMinExp)
  /\ geores.tag = "Err"
  /\ draws = 0

\* What C3 states of every state of a sample_two_sided_geometric call.
TwoSidedInvariant ==
  /\ geometric_sample >= 0 /\ geometric_sample <= I64Max - 1
  /\ npc \in {"g_call", "g_loop", "g_ret"} => (geometric_sample = 0 /\ ~positive)
  /\ (npc = "t_ret" /\ twores.tag = "Ok") =>
       /\ positive \/ geometric_sample # 0
       /\ ~positive => geometric_sample \notin {0, I64Min}
       /\ twores.val = IF positive THEN geometric_sample ELSE -geometric_sample
       /\ twores.val = 0 => positive
       /\ twores.val >= -(I64Max - 1) /\ twores.val <= I64Max - 1

\* At the head of the loop the pair is accepted exactly when the sign is
\* positive or the shifted sample is not zero.
TwoSidedAccepts ==
  npc = "t_loop" =>
    ((npc' = "t_ret") <=> (positive \/ geometric_sample # 0))

\* C3: sample_two_sided_geometric accepts a (shifted sample, sign) pair
\* exactly when the sign is positive or the shifted sample is not zero; the
\* shifted sample is in [0, i64::MAX - 1], magnitude 0 is returned only with
\* a positive sign, wrapping_neg is never applied to 0 or i64::MIN, and the
\* returned value is in [-(i64::MAX - 1), i64::MAX - 1].
C3_TwoSidedAcceptance == []TwoSidedInvariant /\ [][TwoSidedAccepts]_vars

\* sample_two_sided_geometric has returned the negated largest shifted sample.
C3_Witness ==
  /\ npc = "t_ret" /\ ~positive
  /\ geometric_sample = I64Max - 1
  /\ twores = Ok(-(I64Max - 1))

\* What the bisection loop keeps: 0 <= left < right <= i64::MAX, and every
\* turn taken has narrowed right - left by at least one.
BisectionInvariant ==
  /\ npc = "g_loop" =>
       /\ 0 <= left /\ left < right /\ right <= I64Max
       /\ iters + (right - left) <= I64Max
  /\ (npc = "g_ret" /\ geores.tag = "Ok" /\ ~exceeded /\ Gt(lambda, Pow2(LambdaMinExp))) =>
       /\ right - left = 1
       /\ geores = Ok(right)
       /\ iters <= I64Max - 1

\* A turn of the loop starts with left + 1 < right and replaces exactly one
\* of left and right by a value strictly between them.
BisectionTurn ==
  (npc = "g_loop" /\ npc' = "g_loop") =>
    /\ left + 1 < right
    /\ \/ left' = left /\ left < right' /\ right' < right
       \/ right' = right /\ left < left' /\ left' < right
    /\ right' - left' < right - left
    /\ iters' = iters + 1

\* C8: in the bisection loop every turn starts with left + 1 < right, uses a
\* clamped midpoint strictly between left and right and replaces exactly one
\* of them by it, so right - left strictly decreases; the loop ends with
\* right - left = 1 and returns right, after at most i64::MAX - 1 turns.
C8_BisectionTerminates == []BisectionInvariant /\ [][BisectionTurn]_vars

\* The loop has run its i64::MAX - 1 turns for a lambda >= 1.
C8_Witness ==
  /\ npc = "g_ret" /\ ~exceeded /\ geores.tag = "Ok"
  /\ Ge(lambda, One) /\ IsFin(lambda)
  /\ iters = I64Max - 1

\* The turns C8 was stated to allow: 63 for the 64-bit integer.
BisectionTurnsStated == I64Bits - 1

\* C8 as stated: the loop returns after at most 63 turns.
C8_AtMost63Turns ==
  (npc = "g_loop" /\ Ge(lambda, One) /\ IsFin(lambda)) =>
    iters <= BisectionTurnsStated

\* C10: in noise, whenever granularity > 1 and the two-sided sample was
\* drawn, trunc(granularity) as an i64 equals granularity, the product of the
\* sample and it fits an i64, and the noise returned is that exact product.
C10_ExactProduct ==
  (npc = "n_ret" /\ Gt(granularity, One) /\ twores.tag = "Ok") =>
    /\ I64ToF64(F64ToI64(Trunc(granularity))) = granularity
    /\ twores.val * F64ToI64(Trunc(granularity)) >= I64Min
    /\ twores.val * F64ToI64(Trunc(granularity)) <= I64Max
    /\ nres = Ok(twores.val * F64ToI64(Trunc(granularity)))

====
